---- MODULE Spec2Model ----
(***************************************************************************)
(* State-machine model of src/Functor.py (class FunctorChecker): the       *)
(* 12-hour check-in loop over the lines of accounts.txt.                   *)
(*                                                                         *)
(* A string is a sequence of atoms.  The atoms "@", ":" and "." are the    *)
(* three characters the program looks for; every other atom is a run of    *)
(* characters free of them (a JWT segment, a mailbox name, a password).    *)
(* Times are whole hours since the epoch.                                  *)
(***************************************************************************)
EXTENDS Integers, Sequences, FiniteSets, TLC

VARIABLES
    file,        \* accounts.txt: whether it exists, and its lines
    lines,       \* main_cycle: the loaded non-blank lines
    pc,          \* where the process is
    idx,         \* main_cycle: position of `line` in `lines` (0 before the first)
    now_int,     \* main_cycle: int(time.time()) read for a token line
    i,           \* turn of the retry loop in progress
    tok, uid,    \* manage_checkin: its arguments token and user_id
    res,         \* JSON body of the last successful response of the call
    login_ret,   \* what attempt_email_signin returned: <<>> is None
    info,        \* manage_checkin: what request_user_info returned
    dt_now_utc,  \* manage_checkin: datetime.utcnow() as read
    c_res,       \* manage_checkin: what perform_checkin returned
    raised,      \* the exception that reached run_final, "" when none did
    log,         \* messages of styled_log since the line (or pass) began
    trace,       \* requests, outcomes and sleeps of the current call
    nLogin, nInfo, nCheckin,  \* requests sent for the current line
    nManage,     \* calls of manage_checkin for the current line
    nPerform,    \* calls of perform_checkin for the current line
    delivered,   \* check-in requests of the current perform_checkin call
                 \* that the server received and accepted
    nDone,       \* lines of the current pass whose processing has ended
    remainder,   \* main_cycle: seconds left of the 12-hour wait
    entry, out   \* argument and result of extract_jwt_data called alone

vars == <<file, lines, pc, idx, now_int, i, tok, uid, res, login_ret, info,
          dt_now_utc, c_res, raised, log, trace, nLogin, nInfo, nCheckin,
          nManage, nPerform, delivered, nDone, remainder, entry, out>>

(***************************************************************************)
(* Bounds of the model.                                                    *)
(***************************************************************************)
MaxLines == 2      \* lines in accounts.txt
MaxEntryLen == 5   \* atoms in an input of extract_jwt_data (SpecJwt)
MaxNow == 2        \* latest reading of time.time()
MaxClock == 26     \* latest reading of datetime.utcnow()

(***************************************************************************)
(* Program constants.                                                      *)
(***************************************************************************)
attempts == 5          \* attempt_email_signin(..., attempts=5)
InfoTries == 5         \* request_user_info: range(5)
CheckinTries == 5      \* perform_checkin: range(5)
CooldownHours == 24    \* timedelta(hours=24)
WaitSeconds == 43200   \* remainder = 12 * 3600

NoneStr == "<None>"    \* Python's None where a string may stand

(***************************************************************************)
(* Strings.                                                                *)
(***************************************************************************)
Contains(s, a) == \E k \in 1..Len(s) : s[k] = a

FirstIndex(s, a) == CHOOSE k \in 1..Len(s) :
                       s[k] = a /\ \A j \in 1..(k - 1) : s[j] # a

\* str.split(sep): every segment between occurrences of sep
RECURSIVE Split(_, _)
Split(s, sep) ==
    IF ~Contains(s, sep) THEN <<s>>
    ELSE LET k == FirstIndex(s, sep)
         IN  <<SubSeq(s, 1, k - 1)>> \o Split(SubSeq(s, k + 1, Len(s)), sep)

\* str.split(sep, 1): at most one cut, at the first occurrence of sep
SplitOnce(s, sep) ==
    IF ~Contains(s, sep) THEN <<s>>
    ELSE LET k == FirstIndex(s, sep)
         IN  <<SubSeq(s, 1, k - 1), SubSeq(s, k + 1, Len(s))>>

(***************************************************************************)
(* JSON values carried by a token payload.  exp is a number, a string or   *)
(* absent; email and sub are strings or absent.                            *)
(***************************************************************************)
NoExp == [t |-> "none", n |-> 0]
IntExp(n) == [t |-> "int", n |-> n]
StrExp == [t |-> "str", n |-> 0]

NoneTriple == [email |-> NoneStr, sub |-> NoneStr, exp |-> NoExp]

\* Python truth of a str-or-None and of an exp value
TruthyStr(s) == s # NoneStr /\ s # ""
TruthyExp(e) == (e.t = "int" /\ e.n # 0) \/ e.t = "str"

\* The text segments of the model and what the decoding chain
\* urlsafe_b64decode(seg + "==") -> decode("utf-8") -> json.loads makes of
\* each: the exception of the first stage that fails, or the JSON value.
Decoded(exc, kind, email, sub, exp) ==
    [exc |-> exc, kind |-> kind, email |-> email, sub |-> sub, exp |-> exp]

Failing(exc) == Decoded(exc, "none", NoneStr, NoneStr, NoExp)

PayloadTable(chunk) ==
    CASE chunk = "pFull"   -> Decoded("", "dict", "a@b.com", "123", IntExp(1))
      [] chunk = "pNoMail" -> Decoded("", "dict", NoneStr, "123", IntExp(1))
      [] chunk = "pNoSub"  -> Decoded("", "dict", "a@b.com", NoneStr, IntExp(1))
      [] chunk = "pStrExp" -> Decoded("", "dict", "a@b.com", "123", StrExp)
      [] chunk = "hdr"     -> Decoded("", "dict", NoneStr, NoneStr, NoExp)
      [] chunk = "pList"   -> Decoded("", "list", NoneStr, NoneStr, NoExp)
      [] chunk = "sig"     -> Failing("UnicodeDecodeError")
      [] chunk = "usr"     -> Failing("binascii.Error")
      [] OTHER             -> Failing("JSONDecodeError")

\* The decoding chain on a whole segment: a single text atom decodes by the
\* table, the empty segment decodes to b"" (json.loads fails), and a segment
\* holding a ":" loses it in the base64 alphabet filter and decodes to bytes
\* that are no JSON text.
DecodePayload(seg) ==
    IF Len(seg) = 1 THEN PayloadTable(seg[1]) ELSE Failing("JSONDecodeError")

\* Exceptions that `except Exception` catches
ExceptionClasses == {"binascii.Error", "UnicodeDecodeError", "JSONDecodeError",
                     "ValueError", "AttributeError", "TypeError",
                     "ClientResponseError", "TimeoutError",
                     "ClientConnectorError"}

\* The try body of extract_jwt_data: [exc, val]
JwtTry(e) ==
    LET parts == Split(e, ".")
    IN  IF Len(parts) # 3
        THEN [exc |-> "", val |-> NoneTriple]
        ELSE LET p == DecodePayload(parts[2])
             IN  IF p.exc # "" THEN [exc |-> p.exc, val |-> NoneTriple]
                 ELSE IF p.kind # "dict"
                      THEN [exc |-> "AttributeError", val |-> NoneTriple]
                      ELSE [exc |-> "",
                            val |-> [email |-> p.email, sub |-> p.sub,
                                     exp |-> p.exp]]

\* A narrower clause, `except ValueError`: the decoding errors only
JwtCaughtValueError(exc) ==
    exc \in {"binascii.Error", "UnicodeDecodeError", "JSONDecodeError",
             "ValueError"}

\* The except clause of extract_jwt_data: which exceptions it swallows
JwtCaught(exc) == exc \in ExceptionClasses

\* extract_jwt_data(entry): [raised, val]
extract_jwt_data(e) ==
    LET r == JwtTry(e)
    IN  IF r.exc = "" THEN [raised |-> "", val |-> r.val]
        ELSE IF JwtCaught(r.exc) THEN [raised |-> "", val |-> NoneTriple]
        ELSE [raised |-> r.exc, val |-> NoneTriple]

(***************************************************************************)
(* The clock tests of the main loop and of the check-in policy.            *)
(***************************************************************************)
\* check_token_status: `if now_utc > exp_utc` logs expired, else active
check_token_status(now_utc, exp_utc) ==
    IF now_utc > exp_utc THEN "expired" ELSE "active"

\* The comparison turned round: `if now_int >= user_e`
TokenUsableFlipped(now, exp) == now >= exp

\* main_cycle: `if now_int <= user_e`
TokenUsable(now, exp) == now <= exp

\* main_cycle: `if user_n and user_s and user_e`
TokenFieldsPresent(v) ==
    TruthyStr(v.email) /\ TruthyStr(v.sub) /\ TruthyExp(v.exp)

LoginSubjectUnchecked(v) == TRUE

\* main_cycle: `if s_j` on the token a login returned
LoginSubjectPresent(v) == TruthyStr(v.sub)

\* datetime.strptime(last_c_str, "%Y-%m-%dT%H:%M:%S.%fZ"): the hour of the
\* timestamp, or ValueError when the text does not match the format
Strptime(s) ==
    CASE s = "1970-01-01T01:00:00.000Z" -> [exc |-> "", t |-> 1]
      [] OTHER                         -> [exc |-> "ValueError", t |-> 0]

\* The cooldown left out: dt_next = dt_parsed
dt_nextNoCooldown(dt_parsed) == dt_parsed

\* manage_checkin: dt_next = dt_parsed + timedelta(hours=24)
dt_next(dt_parsed) == dt_parsed + CooldownHours

\* The boundary excluded: `if dt_now_utc > dt_next`
CheckinDueStrict(now, dt_parsed) == now > dt_next(dt_parsed)

\* manage_checkin: `if dt_now_utc >= dt_next`
CheckinDue(now, dt_parsed) == now >= dt_next(dt_parsed)

(***************************************************************************)
(* What the remote service can answer.  A body is the parsed JSON of a     *)
(* successful response: its kind, its number of members, and the value of  *)
(* dipInitMineTime (status) when it has one.                               *)
(***************************************************************************)
Body(kind, n, last) == [kind |-> kind, n |-> n, last |-> last]

EmptyBody == Body("dict", 0, NoneStr)     \* {} : what the retry loops return

InfoBodies ==
    { EmptyBody,
      Body("dict", 1, NoneStr),                       \* balance, no timestamp
      Body("dict", 2, "1970-01-01T01:00:00.000Z"),    \* last check-in 01:00
      Body("dict", 2, "1970-01-01T01:00:00Z"),        \* no fraction of a second
      Body("list", 1, NoneStr) }                      \* a JSON array

CheckinBodies ==
    { EmptyBody,
      Body("dict", 1, NoneStr),                       \* tokensToAward
      Body("list", 1, NoneStr) }

TruthyBodyAlways(b) == TRUE

\* Python truth of a parsed body: an empty container is false
TruthyBody(b) == b.n # 0

TokFull == <<"hdr", ".", "pFull", ".", "sig">>
TokNoSub == <<"hdr", ".", "pNoSub", ".", "sig">>

\* A login body: its kind and its accessToken, <<>> when the member is absent
\* or null, <<t>> when it is the string t
LoginBodies ==
    { [kind |-> "dict", accessToken |-> <<TokFull>>],
      [kind |-> "dict", accessToken |-> <<TokNoSub>>],
      [kind |-> "dict", accessToken |-> <<>>] }

NoRes == [kind |-> "none", accessToken |-> <<>>]    \* no response parsed yet

\* A key the body does not have: res.get("access_token")
ResGetWrongKey(b) == <<>>

\* res.get("accessToken")
ResGet(b) == b.accessToken

\* What a request raises inside the try of a retry loop: an HTTP error status
\* (raise_for_status), a timeout, a refused connection, a body that is no
\* JSON; in the login also a JSON body that is no object (res.get)
RequestFailures == {"ClientResponseError", "TimeoutError",
                    "ClientConnectorError", "JSONDecodeError"}
LoginFailures == RequestFailures \cup {"AttributeError"}

\* The failures that can follow a request the server has already received
\* and acted on: the response does not arrive within ClientTimeout(total=30),
\* or its body is no JSON
LostAfterDelivery == {"TimeoutError", "JSONDecodeError"}

LoopGoesOnOnceMore(k, n) == k + 1 <= n

\* `for i in range(n)`: turn k (from 0) is followed by another turn
LoopGoesOn(k, n) == k + 1 < n

\* A narrower clause: `except ClientResponseError`
RetryCaughtResponseOnly(exc) == exc = "ClientResponseError"

\* `except (ClientResponseError, Exception)` of the three retry loops
RetryCaught(exc) == exc = "ClientResponseError" \/ exc \in ExceptionClasses

\* Another class in the clause: `except KeyError`
UnpackCaughtKeyError(exc) == exc = "KeyError"

\* main_cycle: `except ValueError` around `mail, passwd = line.split(":", 1)`
UnpackCaught(exc) == exc = "ValueError"

\* Python truth of a str-or-None held as <<>> or <<t>>
TruthyTok(r) == Len(r) = 1 /\ r[1] # <<>>

(***************************************************************************)
(* accounts.txt                                                            *)
(***************************************************************************)
AccountLines ==
    { <<>>,                                           \* blank line
      <<"hdr", ".", "pFull", ".", "sig">>,            \* token, all fields
      <<"hdr", ".", "pNoMail", ".", "sig">>,          \* token, no email
      <<"hdr", ".", "pStrExp", ".", "sig">>,          \* token, exp a string
      <<"hdr", ".", "pFull">>,                        \* two segments
      <<"hdr", ".", "sig", ".", "sig">>,              \* payload not UTF-8
      <<"usr", "@", "dom", ":", "pw">>,               \* email:password
      <<"usr", "@", "dom">>,                          \* no ":" at all
      <<"usr", ":", "pw", "@", "dom">> }              \* ":" only before "@"

SeqsUpTo(S, n) == UNION { [1..k -> S] : k \in 0..n }

Files == { [exists |-> FALSE, content |-> <<>>] } \cup
         { [exists |-> TRUE, content |-> c] : c \in SeqsUpTo(AccountLines, MaxLines) }

NonBlank(ln) == ln # <<>>

(***************************************************************************)
(* State                                                                   *)
(***************************************************************************)
line == lines[idx]

NoOut == [raised |-> "", val |-> NoneTriple]

\* The state of one line's processing before anything has happened
FreshLine ==
    /\ now_int' = -1
    /\ i' = 0
    /\ tok' = <<>>
    /\ uid' = NoneStr
    /\ res' = NoRes
    /\ login_ret' = <<>>
    /\ info' = EmptyBody
    /\ dt_now_utc' = -1
    /\ c_res' = EmptyBody
    /\ trace' = <<>>
    /\ nLogin' = 0
    /\ nInfo' = 0
    /\ nCheckin' = 0
    /\ nManage' = 0
    /\ nPerform' = 0
    /\ delivered' = 0

Init ==
    /\ file \in Files
    /\ lines = <<>>
    /\ pc = "start"
    /\ idx = 0
    /\ now_int = -1
    /\ i = 0
    /\ tok = <<>>
    /\ uid = NoneStr
    /\ res = NoRes
    /\ login_ret = <<>>
    /\ info = EmptyBody
    /\ dt_now_utc = -1
    /\ c_res = EmptyBody
    /\ raised = ""
    /\ log = <<>>
    /\ trace = <<>>
    /\ nLogin = 0
    /\ nInfo = 0
    /\ nCheckin = 0
    /\ nManage = 0
    /\ nPerform = 0
    /\ delivered = 0
    /\ nDone = 0
    /\ remainder = 0
    /\ entry = <<>>
    /\ out = NoOut

jwtVars == <<entry, out>>
fileVars == <<file, lines, idx>>
lineVars == <<now_int, i, tok, uid, res, login_ret, info, dt_now_utc, c_res,
              trace, nLogin, nInfo, nCheckin, nManage, nPerform>>
passVars == <<nDone, remainder>>

\* The processing of a line ends when the loop body is left
LineEnds == nDone' = IF pc' = "lineDone" THEN nDone + 1 ELSE nDone

\* run_final: `except Exception as ex` logs the error; run_final returns and
\* asyncio.run ends the process
Raise(exc) ==
    /\ pc' = "exit"
    /\ raised' = exc
    /\ log' = Append(log, "error")

\* main_cycle: open accounts.txt and keep its non-blank lines
Load ==
    /\ pc = "start"
    /\ IF file.exists
       THEN /\ lines' = SelectSeq(file.content, NonBlank)
            /\ pc' = "pass"
            /\ log' = log
       ELSE /\ lines' = lines
            /\ pc' = "exit"
            /\ log' = Append(log, "notfound")
    /\ UNCHANGED <<file, idx, raised, lineVars, jwtVars,
                   delivered, passVars>>

\* main_cycle: top of `while True`: banner and account count
BeginPass ==
    /\ pc = "pass"
    /\ pc' = "for"
    /\ idx' = 0
    /\ log' = <<"count">>
    /\ UNCHANGED <<file, lines, raised, lineVars, jwtVars,
                   delivered, remainder>>
    /\ nDone' = 0

AtLoopHeadOrAsleep == pc \in {"for", "lineDone", "pause"}

\* main_cycle: control is at `for line in lines`: the loop starts, or the
\* body has ended for the previous line (every call in it is awaited)
AtLoopHead == pc \in {"for", "lineDone"}

\* main_cycle: `for line in lines`: take the next line, or leave the loop
ForNext ==
    /\ AtLoopHead
    /\ IF idx < Len(lines)
       THEN /\ idx' = idx + 1
            /\ pc' = "line"
            /\ log' = <<>>
       ELSE /\ idx' = idx
            /\ pc' = "wait"
            /\ log' = <<"waiting">>
    /\ FreshLine
    /\ UNCHANGED <<file, lines, raised, jwtVars,
                   passVars>>

\* entry into manage_checkin(token, user_id): request_user_info starts
CallManage(token, user_id) ==
    /\ tok' = token
    /\ uid' = user_id
    /\ nManage' = nManage + 1
    /\ pc' = "info"
    /\ i' = 0
    /\ trace' = <<>>

\* main_cycle: a line without "@" is a JWT
TokenLine ==
    /\ pc = "line"
    /\ ~Contains(line, "@")
    /\ \E t \in 0..MaxNow :
         LET r == extract_jwt_data(line)
             v == r.val
         IN  /\ now_int' = t
             /\ IF r.raised # ""
                THEN Raise(r.raised) /\ UNCHANGED <<i, tok, uid, trace, nManage>>
                ELSE IF ~TokenFieldsPresent(v)
                THEN /\ pc' = "lineDone"
                     /\ UNCHANGED <<log, raised, i, tok, uid, trace, nManage>>
                ELSE IF v.exp.t # "int"
                THEN \* datetime.fromtimestamp(user_e, ...) raises TypeError
                     /\ pc' = "exit"
                     /\ raised' = "TypeError"
                     /\ log' = log \o <<"banner", "error">>
                     /\ UNCHANGED <<i, tok, uid, trace, nManage>>
                ELSE /\ log' = log \o <<"banner", check_token_status(t, v.exp.n)>>
                     /\ raised' = raised
                     /\ IF TokenUsable(t, v.exp.n)
                        THEN CallManage(line, v.sub)
                        ELSE /\ pc' = "lineDone"
                             /\ UNCHANGED <<i, tok, uid, trace, nManage>>
    /\ UNCHANGED <<fileVars, res, login_ret, info, dt_now_utc, c_res,
                   nLogin, nInfo, nCheckin, jwtVars,
                   nPerform, delivered, remainder>>
    /\ LineEnds

\* main_cycle: a line with "@" is email:password
EmailLine ==
    /\ pc = "line"
    /\ Contains(line, "@")
    /\ IF Len(SplitOnce(line, ":")) = 2
       THEN /\ log' = Append(log, "banner")
            /\ pc' = "signin"
            /\ raised' = raised
       ELSE \* `mail, passwd = ...` raises ValueError
            IF UnpackCaught("ValueError")
            THEN /\ log' = Append(log, "invalid")
                 /\ pc' = "lineDone"        \* `continue`
                 /\ raised' = raised
            ELSE Raise("ValueError")
    /\ i' = 0
    /\ trace' = <<>>
    /\ UNCHANGED <<fileVars, now_int, tok, uid, res, login_ret, info,
                   dt_now_utc, c_res, nLogin, nInfo, nCheckin, nManage, jwtVars,
                   nPerform, delivered, remainder>>
    /\ LineEnds

\* attempt_email_signin, one turn of `for i in range(attempts)`: the POST
\* succeeds with a JSON object and the call returns res.get("accessToken")
SigninOk ==
    /\ pc = "signin"
    /\ \E b \in LoginBodies :
         /\ res' = b
         /\ login_ret' = ResGet(b)
    /\ nLogin' = nLogin + 1
    /\ trace' = trace \o <<"post", "ok">>
    /\ pc' = "signed"
    /\ UNCHANGED <<fileVars, now_int, i, tok, uid, info, dt_now_utc, c_res,
                   raised, log, nInfo, nCheckin, nManage, jwtVars,
                   nPerform, delivered, passVars>>

\* The sleep left out of the except clause
SigninSleepsNever(k) == FALSE

\* attempt_email_signin: `if i < attempts - 1` before `await asyncio.sleep(3)`
SigninSleeps(k) == k < attempts - 1

\* attempt_email_signin, one turn of the loop in which the request raises;
\* after the last turn the call returns None
SigninFail ==
    /\ pc = "signin"
    /\ nLogin' = nLogin + 1
    /\ \E exc \in LoginFailures :
         IF RetryCaught(exc)
         THEN /\ trace' = IF SigninSleeps(i)
                          THEN trace \o <<"post", "err", "sleep3">>
                          ELSE trace \o <<"post", "err">>
              /\ i' = i + 1
              /\ pc' = IF LoopGoesOn(i, attempts) THEN pc ELSE "signed"
              /\ UNCHANGED <<raised, log>>
         ELSE /\ Raise(exc)
              /\ trace' = trace \o <<"post", "err">>
              /\ i' = i
    /\ UNCHANGED <<fileVars, now_int, tok, uid, res, login_ret, info,
                   dt_now_utc, c_res, nInfo, nCheckin, nManage, jwtVars,
                   nPerform, delivered, passVars>>

\* main_cycle after attempt_email_signin returned: `if tok:`,
\* extract_jwt_data(tok), `if s_j:`
AfterSignin ==
    /\ pc = "signed"
    /\ IF ~TruthyTok(login_ret)
       THEN /\ pc' = "lineDone"
            /\ UNCHANGED <<log, raised, i, tok, uid, trace, nManage>>
       ELSE LET r == extract_jwt_data(login_ret[1])
            IN  IF r.raised # ""
                THEN Raise(r.raised) /\ UNCHANGED <<i, tok, uid, trace, nManage>>
                ELSE IF LoginSubjectPresent(r.val)
                THEN CallManage(login_ret[1], r.val.sub) /\ UNCHANGED <<log, raised>>
                ELSE /\ pc' = "lineDone"
                     /\ UNCHANGED <<log, raised, i, tok, uid, trace, nManage>>
    /\ UNCHANGED <<fileVars, now_int, res, login_ret, info, dt_now_utc,
                   c_res, nLogin, nInfo, nCheckin, jwtVars,
                   nPerform, delivered, remainder>>
    /\ LineEnds

\* the trace of a GET that returned body b
GetOk(b) == <<"get", IF TruthyBody(b) THEN "ok" ELSE "ok_empty">>

\* request_user_info, one turn of `for _ in range(5)` that returns the body
InfoOk ==
    /\ pc = "info"
    /\ \E b \in InfoBodies :
         /\ info' = b
         /\ trace' = trace \o GetOk(b)
    /\ nInfo' = nInfo + 1
    /\ pc' = "decide"
    /\ UNCHANGED <<fileVars, now_int, i, tok, uid, res, login_ret, dt_now_utc,
                   c_res, raised, log, nLogin, nCheckin, nManage, jwtVars,
                   nPerform, delivered, passVars>>

\* request_user_info, one turn in which the request raises (sleep 3 s);
\* after the last turn the call returns {}
InfoFail ==
    /\ pc = "info"
    /\ nInfo' = nInfo + 1
    /\ \E exc \in RequestFailures :
         IF RetryCaught(exc)
         THEN /\ trace' = trace \o <<"get", "err", "sleep3">>
              /\ i' = i + 1
              /\ pc' = IF LoopGoesOn(i, InfoTries) THEN pc ELSE "decide"
              /\ UNCHANGED <<raised, log>>
         ELSE /\ Raise(exc)
              /\ trace' = trace \o <<"get", "err">>
              /\ i' = i
    /\ info' = EmptyBody
    /\ UNCHANGED <<fileVars, now_int, tok, uid, res, login_ret, dt_now_utc,
                   c_res, nLogin, nCheckin, nManage, jwtVars,
                   nPerform, delivered, passVars>>

\* entry into perform_checkin(token, user_id)
CallCheckin ==
    /\ pc' = "checkin"
    /\ i' = 0
    /\ trace' = <<>>
    /\ nPerform' = nPerform + 1
    /\ delivered' = 0

\* manage_checkin after request_user_info returned: `if not info`
ManageNoInfo ==
    /\ pc = "decide"
    /\ ~TruthyBody(info)
    /\ log' = Append(log, "nodata")
    /\ pc' = "pause"
    /\ UNCHANGED <<fileVars, raised, lineVars, jwtVars,
                   delivered, passVars>>

\* manage_checkin: info.get on a body that is no object raises AttributeError
ManageBadInfo ==
    /\ pc = "decide"
    /\ TruthyBody(info)
    /\ info.kind # "dict"
    /\ Raise("AttributeError")
    /\ UNCHANGED <<fileVars, lineVars, jwtVars,
                   delivered, passVars>>

\* manage_checkin: `if not last_c_str`: first check-in
ManageFirst ==
    /\ pc = "decide"
    /\ TruthyBody(info)
    /\ info.kind = "dict"
    /\ ~TruthyStr(info.last)
    /\ log' = Append(log, "balance")
    /\ CallCheckin
    /\ UNCHANGED <<fileVars, now_int, tok, uid, res, login_ret, info,
                   dt_now_utc, c_res, raised, nLogin, nInfo, nCheckin, nManage,
                   jwtVars,
                   passVars>>

\* manage_checkin: a check-in was made before: read the clock, parse the
\* timestamp, check in again when 24 h have passed
ManageRepeat ==
    /\ pc = "decide"
    /\ TruthyBody(info)
    /\ info.kind = "dict"
    /\ TruthyStr(info.last)
    /\ \E t \in 0..MaxClock :
         LET p == Strptime(info.last)
         IN  /\ dt_now_utc' = t
             /\ IF p.exc # ""
                THEN /\ pc' = "exit"
                     /\ raised' = p.exc
                     /\ log' = log \o <<"balance", "error">>
                     /\ UNCHANGED <<i, trace, nPerform, delivered>>
                ELSE IF CheckinDue(t, p.t)
                THEN /\ log' = Append(log, "balance")
                     /\ raised' = raised
                     /\ CallCheckin
                ELSE /\ log' = log \o <<"balance", "already">>
                     /\ raised' = raised
                     /\ pc' = "pause"
                     /\ UNCHANGED <<i, trace, nPerform, delivered>>
    /\ UNCHANGED <<fileVars, now_int, tok, uid, res, login_ret, info,
                   c_res, nLogin, nInfo, nCheckin, nManage, jwtVars,
                   passVars>>

\* perform_checkin, one turn of `for _ in range(5)` that returns the body
CheckinOk ==
    /\ pc = "checkin"
    /\ \E b \in CheckinBodies :
         /\ c_res' = b
         /\ trace' = trace \o GetOk(b)
    /\ nCheckin' = nCheckin + 1
    /\ delivered' = delivered + 1
    /\ pc' = "checked"
    /\ UNCHANGED <<fileVars, now_int, i, tok, uid, res, login_ret, info,
                   dt_now_utc, raised, log, nLogin, nInfo, nManage, jwtVars,
                   nPerform, passVars>>

\* perform_checkin, one turn in which the request raises (sleep 3 s);
\* after the last turn the call returns {}.  `acc` tells whether the server
\* had accepted the request before the failure
CheckinRetry(excs, acc) ==
    /\ pc = "checkin"
    /\ nCheckin' = nCheckin + 1
    /\ delivered' = IF acc THEN delivered + 1 ELSE delivered
    /\ \E exc \in excs :
         IF RetryCaught(exc)
         THEN /\ trace' = trace \o <<"get", "err", "sleep3">>
              /\ i' = i + 1
              /\ pc' = IF LoopGoesOn(i, CheckinTries) THEN pc ELSE "checked"
              /\ UNCHANGED <<raised, log>>
         ELSE /\ Raise(exc)
              /\ trace' = trace \o <<"get", "err">>
              /\ i' = i
    /\ c_res' = EmptyBody
    /\ UNCHANGED <<fileVars, now_int, tok, uid, res, login_ret, info,
                   dt_now_utc, nLogin, nInfo, nManage, jwtVars,
                   nPerform, passVars>>

\* perform_checkin: a request fails before the server has acted on it
CheckinFail == CheckinRetry(RequestFailures, FALSE)

\* perform_checkin: the server accepts the request and the response is lost
CheckinLost == CheckinRetry(LostAfterDelivery, TRUE)

\* manage_checkin after perform_checkin returned: `if c_res` / `if c2`
AfterCheckin ==
    /\ pc = "checked"
    /\ IF ~TruthyBody(c_res)
       THEN /\ log' = Append(log, "checkin_failed")
            /\ pc' = "pause"
            /\ raised' = raised
       ELSE IF c_res.kind # "dict"
       THEN Raise("AttributeError")      \* c_res.get on a JSON array
       ELSE /\ log' = Append(log, "checkin_ok")
            /\ pc' = "pause"
            /\ raised' = raised
    /\ delivered' = 0
    /\ UNCHANGED <<fileVars, lineVars, jwtVars,
                   passVars>>

\* main_cycle: `await asyncio.sleep(3)` after manage_checkin, whose frame
\* (info, dt_now_utc, c_res) is gone
Pause ==
    /\ pc = "pause"
    /\ pc' = "lineDone"
    /\ info' = EmptyBody
    /\ dt_now_utc' = -1
    /\ c_res' = EmptyBody
    /\ trace' = <<"sleep3">>
    /\ UNCHANGED <<fileVars, raised, log, now_int, i, tok, uid, res, login_ret,
                   nLogin, nInfo, nCheckin, nManage, jwtVars,
                   nPerform, delivered, remainder>>
    /\ LineEnds

\* main_cycle: the 12-hour countdown, then the next turn of `while True`
Wait ==
    /\ pc = "wait"
    /\ pc' = "pass"
    /\ UNCHANGED <<fileVars, raised, log, lineVars, jwtVars,
                   delivered, nDone>>
    /\ remainder' = 0

Next ==
    \/ Load
    \/ BeginPass
    \/ ForNext
    \/ TokenLine
    \/ EmailLine
    \/ SigninOk
    \/ SigninFail
    \/ AfterSignin
    \/ InfoOk
    \/ InfoFail
    \/ ManageNoInfo
    \/ ManageBadInfo
    \/ ManageFirst
    \/ ManageRepeat
    \/ CheckinOk
    \/ CheckinFail
    \/ AfterCheckin
    \/ Pause
    \/ Wait

Spec == Init /\ [][Next]_vars

(***************************************************************************)
(* extract_jwt_data on its own: every string of at most MaxEntryLen atoms  *)
(***************************************************************************)
JwtAtoms == {".", "hdr", "pFull", "pNoMail", "pList", "sig"}

InitJwt ==
    /\ entry \in SeqsUpTo(JwtAtoms, MaxEntryLen)
    /\ out = NoOut
    /\ pc = "jwt"
    /\ file = [exists |-> FALSE, content |-> <<>>]
    /\ lines = <<>>
    /\ idx = 0
    /\ now_int = -1
    /\ i = 0
    /\ tok = <<>>
    /\ uid = NoneStr
    /\ res = NoRes
    /\ login_ret = <<>>
    /\ info = EmptyBody
    /\ dt_now_utc = -1
    /\ c_res = EmptyBody
    /\ raised = ""
    /\ log = <<>>
    /\ trace = <<>>
    /\ nLogin = 0
    /\ nInfo = 0
    /\ nCheckin = 0
    /\ nManage = 0
    /\ nPerform = 0
    /\ delivered = 0
    /\ nDone = 0
    /\ remainder = 0

JwtCall ==
    /\ pc = "jwt"
    /\ out' = extract_jwt_data(entry)
    /\ pc' = "jwtDone"
    /\ UNCHANGED <<entry, fileVars, raised, log, lineVars, delivered, passVars>>

NextJwt == JwtCall

SpecJwt == InitJwt /\ [][NextJwt]_vars

\* The state of the process before main_cycle has opened the file
Constructed ==
    /\ lines = <<>>
    /\ pc = "start"
    /\ idx = 0
    /\ now_int = -1
    /\ i = 0
    /\ tok = <<>>
    /\ uid = NoneStr
    /\ res = NoRes
    /\ login_ret = <<>>
    /\ info = EmptyBody
    /\ dt_now_utc = -1
    /\ c_res = EmptyBody
    /\ raised = ""
    /\ log = <<>>
    /\ trace = <<>>
    /\ nLogin = 0
    /\ nInfo = 0
    /\ nCheckin = 0
    /\ nManage = 0
    /\ nPerform = 0
    /\ delivered = 0
    /\ nDone = 0
    /\ remainder = 0
    /\ entry = <<>>
    /\ out = NoOut

(***************************************************************************)
(* The 12-hour wait second by second, with the scheduling of the event     *)
(* loop: a coroutine that can take a step takes it (every request ends     *)
(* within ClientTimeout(total=30), every sleep ends)                       *)
(***************************************************************************)
\* One account of each kind
CycleFiles ==
    { [exists |-> TRUE, content |-> <<ln>>] :
        ln \in { <<"hdr", ".", "pFull", ".", "sig">>,
                 <<"usr", "@", "dom", ":", "pw">> } }

InitCycle ==
    /\ file \in CycleFiles
    /\ Constructed

\* main_cycle: `remainder = 12 * 3600`
WaitBegin ==
    /\ pc = "wait"
    /\ pc' = "countdown"
    /\ remainder' = WaitSeconds
    /\ UNCHANGED <<fileVars, raised, log, lineVars, jwtVars, delivered, nDone>>

WaitStepStuck(r) == r

\* main_cycle: `remainder -= 1`
WaitStep(r) == r - 1

\* main_cycle: one turn of `while remainder > 0`: sleep 1 s, count down
Tick ==
    /\ pc = "countdown"
    /\ remainder > 0
    /\ remainder' = WaitStep(remainder)
    /\ UNCHANGED <<pc, fileVars, raised, log, lineVars, jwtVars, delivered,
                   nDone>>

\* main_cycle: `while remainder > 0` ends, next turn of `while True`
WaitEnd ==
    /\ pc = "countdown"
    /\ ~(remainder > 0)
    /\ pc' = "pass"
    /\ UNCHANGED <<fileVars, raised, log, lineVars, jwtVars, delivered,
                   passVars>>

\* The steps of one line's processing
LineStep ==
    \/ TokenLine
    \/ EmailLine
    \/ SigninOk
    \/ SigninFail
    \/ AfterSignin
    \/ InfoOk
    \/ InfoFail
    \/ ManageNoInfo
    \/ ManageBadInfo
    \/ ManageFirst
    \/ ManageRepeat
    \/ CheckinOk
    \/ CheckinFail
    \/ AfterCheckin
    \/ Pause

NextCycle ==
    \/ Load
    \/ BeginPass
    \/ ForNext
    \/ LineStep
    \/ WaitBegin
    \/ Tick
    \/ WaitEnd

SpecCycle == InitCycle /\ [][NextCycle]_vars /\ WF_vars(NextCycle)

(***************************************************************************)
(* The passes with accounts.txt rewritten by its owner during the wait     *)
(***************************************************************************)
\* accounts.txt is replaced while the process sleeps
EditFile ==
    /\ pc = "wait"
    /\ \E f \in CycleFiles :
         /\ f # file
         /\ file' = f
    /\ UNCHANGED <<lines, idx, pc, raised, log, lineVars, jwtVars, delivered,
                   passVars>>

NextEdit ==
    \/ Load
    \/ BeginPass
    \/ ForNext
    \/ LineStep
    \/ EditFile
    \/ Wait

SpecEdit == InitCycle /\ [][NextEdit]_vars

(***************************************************************************)
(* perform_checkin on its own, called by manage_checkin for a token line,  *)
(* with a server that may act on a request whose response never reaches    *)
(* the client                                                              *)
(***************************************************************************)
CheckinTokens == { <<"hdr", ".", "pFull", ".", "sig">>,
                   <<"hdr", ".", "pNoMail", ".", "sig">> }

InitCheckin ==
    /\ file \in { [exists |-> TRUE, content |-> <<t>>] : t \in CheckinTokens }
    /\ lines = file.content
    /\ idx = 1
    /\ pc = "checkin"
    /\ tok = lines[1]
    /\ uid = "123"
    /\ info = Body("dict", 1, NoneStr)      \* no check-in so far: line 229
    /\ nInfo = 1
    /\ nManage = 1
    /\ nPerform = 1
    /\ now_int = 0
    /\ i = 0
    /\ res = NoRes
    /\ login_ret = <<>>
    /\ dt_now_utc = -1
    /\ c_res = EmptyBody
    /\ raised = ""
    /\ log = <<"banner", "active", "balance">>
    /\ trace = <<>>
    /\ nLogin = 0
    /\ nCheckin = 0
    /\ delivered = 0
    /\ nDone = 0
    /\ remainder = 0
    /\ entry = <<>>
    /\ out = NoOut

NextCheckin ==
    \/ CheckinOk
    \/ CheckinFail
    \/ CheckinLost
    \/ AfterCheckin

SpecCheckin == InitCheckin /\ [][NextCheckin]_vars

(***************************************************************************)
(* Properties                                                              *)
(***************************************************************************)
Count(s, x) == Cardinality({ k \in 1..Len(s) : s[k] = x })
LastOf(s) == IF Len(s) = 0 THEN "" ELSE s[Len(s)]
Logged(m) == Contains(log, m)

\* The current line has been taken from the list and classified
LineTaken ==
    /\ idx \in 1..Len(lines)
    /\ pc \in {"signin", "signed", "info", "decide", "checkin", "checked",
               "pause", "lineDone", "exit"}

\* The status in hand carries a last check-in timestamp that parses
HasTimestamp == TruthyStr(info.last) /\ Strptime(info.last).exc = ""
LastCheckin == Strptime(info.last).t

\* C1: in manage_checkin, when the fetched status carries a last check-in
\* timestamp T and the clock read is strictly before T + 24 h, perform_checkin
\* is not entered and no check-in request is sent for that account.
C1_NoCheckinWithinCooldown ==
    (dt_now_utc # -1 /\ HasTimestamp /\ dt_now_utc < LastCheckin + CooldownHours)
        => (pc \notin {"checkin", "checked"} /\ nCheckin = 0)

C1_Witness ==
    /\ pc = "pause"
    /\ HasTimestamp
    /\ dt_now_utc = LastCheckin + CooldownHours - 1
    /\ LastOf(log) = "already"
    /\ nCheckin = 0

\* C2: when manage_checkin has returned on a non-empty status that has no
\* last check-in timestamp, or has a timestamp T with the clock read at or
\* after T + 24 h (the boundary included), a check-in request was sent.
C2_CheckinWhenDue ==
    (/\ pc = "pause"
     /\ TruthyBody(info)
     /\ \/ ~TruthyStr(info.last)
        \/ HasTimestamp /\ dt_now_utc >= LastCheckin + CooldownHours)
        => nCheckin >= 1

C2_Witness ==
    /\ pc = "pause"
    /\ HasTimestamp
    /\ dt_now_utc = LastCheckin + CooldownHours
    /\ nCheckin >= 1

\* C3: for a token line that does not decode, or whose exp lies before the
\* time sampled for the line, no request of any kind is sent and the line is
\* skipped; "expired" is logged exactly for a decoded token whose exp is
\* past, "active" exactly for one whose exp is not, and manage_checkin is
\* entered after "active" and never after "expired".
C3_ExpiredTokenSkipped ==
    now_int # -1 =>
        LET v == extract_jwt_data(line).val
            past == v.exp.t = "int" /\ now_int > v.exp.n
        IN  /\ (v = NoneTriple \/ past)
                 => /\ nLogin = 0 /\ nInfo = 0 /\ nCheckin = 0 /\ nManage = 0
                    /\ pc = "lineDone"
            /\ Logged("expired") => (past /\ nManage = 0 /\ pc = "lineDone")
            /\ Logged("active") => (~past /\ nManage = 1)
            /\ (TokenFieldsPresent(v) /\ v.exp.t = "int")
                 => (Logged("expired") <=> past) /\ (Logged("active") <=> ~past)

C3_Witness ==
    /\ now_int # -1
    /\ extract_jwt_data(line).val.exp = IntExp(1)
    /\ now_int = 2
    /\ log = <<"banner", "expired">>
    /\ pc = "lineDone"
    /\ nInfo = 0

\* The payload of a token line decodes to a JSON object
PayloadDecodes(ln) == Len(Split(ln, ".")) = 3 /\ JwtTry(ln).exc = ""

\* C4: every token line whose payload decodes and whose exp is not before
\* the time sampled for the line has had manage_checkin run on it when the
\* line is done.
C4_DecodableUnexpiredIsManaged ==
    (/\ pc = "lineDone"
     /\ now_int # -1
     /\ PayloadDecodes(line)
     /\ JwtTry(line).val.exp.t = "int"
     /\ now_int <= JwtTry(line).val.exp.n)
        => nManage = 1

\* C5: one call of attempt_email_signin sends at most 5 login requests,
\* sleeps 3 s after every failed attempt that is followed by another one,
\* sends nothing after a successful attempt, and after the 5th failed
\* attempt has returned no token.
C5_SigninRetries ==
    pc \in {"signin", "signed"} =>
        /\ Count(trace, "post") <= 5
        /\ nLogin = Count(trace, "post")
        /\ \A k \in 1..Len(trace) :
             (trace[k] = "err" /\ \E j \in (k + 1)..Len(trace) : trace[j] = "post")
                => (trace[k + 1] = "sleep3" /\ trace[k + 2] = "post")
        /\ \A k \in 1..Len(trace) :
             trace[k] = "ok" => (k = Len(trace) /\ pc = "signed")
        /\ Count(trace, "err") = 5 => (pc = "signed" /\ login_ret = <<>>)
        /\ pc = "signin" => Count(trace, "err") < 5

C5_Witness ==
    /\ pc = "signed"
    /\ Count(trace, "err") = 5
    /\ Count(trace, "sleep3") = 4
    /\ login_ret = <<>>

\* C6 as stated: attempt_email_signin returns no token only after all 5
\* attempts have failed, and a successful login request always makes it
\* return a token.
C6_NoTokenOnlyWhenExhausted ==
    pc = "signed" =>
        /\ login_ret = <<>> => Count(trace, "err") = 5
        /\ LastOf(trace) = "ok" => login_ret # <<>>

\* C6, amended: attempt_email_signin returns the accessToken member of the
\* first successful response at once, which is no token when the body has
\* none; otherwise it returns no token, and only after all 5 attempts failed.
C6_ReturnsAccessTokenMember ==
    pc = "signed" =>
        /\ LastOf(trace) = "ok" => login_ret = res.accessToken
        /\ LastOf(trace) # "ok" => (login_ret = <<>> /\ Count(trace, "err") = 5)

C6_Witness ==
    /\ pc = "signed"
    /\ trace = <<"post", "ok">>
    /\ res.kind = "dict"
    /\ res.accessToken = <<>>
    /\ login_ret = <<>>

\* What the GET retry loop that has just returned gave back
GetReturned == IF pc = "decide" THEN info ELSE c_res

\* The GET retry loops: at most 5 requests, nothing after a success, and no
\* request failure reaches run_final
GetLoopBounded ==
    /\ pc \in {"info", "decide", "checkin", "checked"} =>
         /\ Count(trace, "get") <= 5
         /\ \A k \in 1..Len(trace) :
              trace[k] \in {"ok", "ok_empty"}
                 => (k = Len(trace) /\ pc \in {"decide", "checked"})
    /\ raised \notin RequestFailures

\* C7 as stated: request_user_info and perform_checkin send at most 5 GETs,
\* return the first successful body, return the empty result exactly when
\* all 5 requests failed, and let no request failure out.
C7_EmptyExactlyWhenAllFailed ==
    /\ GetLoopBounded
    /\ pc \in {"decide", "checked"} =>
         (~TruthyBody(GetReturned) <=> Count(trace, "err") = 5)

\* C7, amended: as stated, except that the empty result is returned when all
\* 5 requests failed and also when the first successful response has an
\* empty body.
C7_EmptyWhenAllFailedOrEmptyBody ==
    /\ GetLoopBounded
    /\ pc \in {"decide", "checked"} =>
         /\ Count(trace, "err") = 5 => GetReturned = EmptyBody
         /\ ~TruthyBody(GetReturned)
              <=> (Count(trace, "err") = 5 \/ LastOf(trace) = "ok_empty")
         /\ LastOf(trace) \in {"ok", "ok_empty", "sleep3"}

C7_Witness ==
    /\ pc = "checked"
    /\ Count(trace, "get") = 5
    /\ Count(trace, "err") = 5
    /\ c_res = EmptyBody
    /\ raised = ""

\* Three dot-separated segments, told without splitting
DotsOf(e) == { k \in 1..Len(e) : e[k] = "." }
MiddleOf(e) ==
    LET a == CHOOSE k \in DotsOf(e) : \A j \in DotsOf(e) : k <= j
        b == CHOOSE k \in DotsOf(e) : \A j \in DotsOf(e) : j <= k
    IN  SubSeq(e, a + 1, b - 1)
WellFormedToken(e) ==
    /\ Cardinality(DotsOf(e)) = 2
    /\ Len(MiddleOf(e)) = 1
    /\ PayloadTable(MiddleOf(e)[1]).exc = ""
    /\ PayloadTable(MiddleOf(e)[1]).kind = "dict"

\* C8: extract_jwt_data never raises; it returns (None, None, None) for an
\* input that has not exactly 3 dot-separated segments or whose middle
\* segment does not decode to a JSON object, and the email, sub and exp of
\* the payload for a well-formed token.
C8_ExtractNeverRaises ==
    pc = "jwtDone" =>
        /\ out.raised = ""
        /\ IF WellFormedToken(entry)
           THEN LET p == PayloadTable(MiddleOf(entry)[1])
                IN  out.val = [email |-> p.email, sub |-> p.sub, exp |-> p.exp]
           ELSE out.val = NoneTriple

C8_Witness ==
    /\ pc = "jwtDone"
    /\ entry = <<"hdr", ".", "pList", ".", "sig">>
    /\ out = NoOut

\* A ":" somewhere after an "@"
ColonAfterAt(ln) ==
    \E j \in 1..Len(ln) : \E k \in (j + 1)..Len(ln) : ln[j] = "@" /\ ln[k] = ":"

\* The line was reported as invalid and skipped, the pass going on
ReportedInvalid ==
    /\ log = <<"invalid">>
    /\ nLogin = 0 /\ nInfo = 0 /\ nCheckin = 0
    /\ pc = "lineDone"
    /\ raised = ""

\* C9 as stated: every line that contains "@" but has no ":" after the "@"
\* is reported as invalid, causes no request, and the pass goes on.
C9_NoColonAfterAtIsInvalid ==
    (LineTaken /\ Contains(line, "@") /\ ~ColonAfterAt(line)) => ReportedInvalid

\* C9, amended: every line that contains "@" but no ":" at all is reported
\* as invalid, causes no request, and the pass goes on.
C9_NoColonIsInvalid ==
    (LineTaken /\ Contains(line, "@") /\ ~Contains(line, ":")) => ReportedInvalid

C9_Witness ==
    /\ LineTaken
    /\ line = <<"usr", "@", "dom">>
    /\ ReportedInvalid

\* C10: after the top-level handler has logged an exception that no inner
\* handler caught, the process is still running and goes on to a later pass.
C10_HandlerContinues ==
    (raised # "" /\ Logged("error")) => pc # "exit"

(***************************************************************************)
(* C11: once the file is loaded the passes repeat for ever: every pass     *)
(* that no error ends is followed by the 12-hour wait, a countdown from    *)
(* 43200 in steps of one second that reaches 0, and then by the next pass; *)
(* the process ends only with an exception raised                          *)
(***************************************************************************)
C11_PassesRepeat ==
    /\ []((pc = "exit" /\ file.exists) => raised # "")
    /\ [][pc = "wait" => (pc' = "countdown" /\ remainder' = 43200)]_vars
    /\ [][(pc = "countdown" /\ pc' = "countdown")
            => remainder' = remainder - 1]_vars
    /\ [][pc' = "pass" => (pc = "start" \/ remainder = 0)]_vars
    /\ (pc = "for") ~> (pc = "exit" \/ pc = "countdown")
    /\ (pc = "countdown") ~> (pc = "countdown" /\ remainder = 0)
    /\ (pc = "countdown" /\ remainder = 0) ~> (pc = "for" /\ idx = 0)

C11_Witness ==
    pc = "countdown" /\ remainder = 0 /\ nDone = Len(lines) /\ nDone > 0

(***************************************************************************)
(* C12: every pass works on the lines that accounts.txt holds when the     *)
(* pass starts, so that an edit made during the wait reaches the next pass *)
(***************************************************************************)
C12_PassReadsFile ==
    (pc = "for" /\ idx = 0) => lines = SelectSeq(file.content, NonBlank)

(***************************************************************************)
(* C13: the lines are processed one after the other: while line idx is     *)
(* being processed (classified, a request sent, a sleep pending) the       *)
(* processing of all idx - 1 lines before it has ended, and no line after  *)
(* it has been taken; requests are sent only from within that processing   *)
(***************************************************************************)
InProcessing ==
    pc \in {"line", "signin", "signed", "info", "decide", "checkin",
            "checked", "pause"}

C13_OneLineAtATime ==
    /\ InProcessing => (idx \in 1..Len(lines) /\ nDone = idx - 1)
    /\ pc = "lineDone" => (idx \in 1..Len(lines) /\ nDone = idx)
    /\ pc \in {"pass", "for", "wait"} => nLogin + nInfo + nCheckin = 0
    /\ pc = "wait" => (idx = Len(lines) /\ nDone = idx)

C13_Witness ==
    /\ idx = 2
    /\ pc = "checkin"
    /\ nCheckin > 0
    /\ nDone = 1

(***************************************************************************)
(* C14: a failed request (login, status fetch, check-in) never ends the    *)
(* pass: the process is never stopped right after a failed request; when   *)
(* all 5 requests of a call have failed the call's result is the absent    *)
(* token or the empty body, the line gets no further request, and the loop *)
(* goes on to the line after it                                            *)
(***************************************************************************)
AllFailed == Count(trace, "err") = 5

C14_FailureNeverAborts ==
    /\ pc = "exit" => (LastOf(trace) # "err" /\ raised \notin RequestFailures)
    /\ (pc = "signed" /\ AllFailed) => login_ret = <<>>
    /\ (pc = "decide" /\ AllFailed) => info = EmptyBody
    /\ (pc = "checked" /\ AllFailed) => c_res = EmptyBody
    /\ (pc \in {"pause", "lineDone"} /\ nLogin = 5 /\ login_ret = <<>>)
         => nInfo + nCheckin = 0
    /\ (pc \in {"pause", "lineDone"} /\ nManage = 1 /\ Logged("nodata"))
         => nCheckin = 0
    /\ (pc = "lineDone" /\ idx < Len(lines)) => ENABLED (ForNext /\ pc' = "line")

C14_Witness ==
    /\ pc = "pause"
    /\ idx < Len(lines)
    /\ AllFailed
    /\ nInfo = 5
    /\ Logged("nodata")

(***************************************************************************)
(* C15: on an email:password line a status or check-in request, or a call  *)
(* of manage_checkin, happens only after a login request of this line       *)
(* returned a token whose payload carries a subject id; the policy works   *)
(* with exactly that token and that subject id.  Without such a token the  *)
(* line gets no status and no check-in request                             *)
(***************************************************************************)
OnEmailLine ==
    /\ idx \in 1..Len(lines)
    /\ pc \in {"signin", "signed", "info", "decide", "checkin", "checked",
               "pause", "lineDone", "exit"}
    /\ Contains(line, "@")

PolicyActive ==
    \/ nManage + nInfo + nCheckin + nPerform > 0
    \/ pc \in {"info", "decide", "checkin", "checked", "pause"}

SubjectOf(t) == PayloadTable(MiddleOf(t)[1]).sub

C15_PolicyOnlyAfterLogin ==
    (OnEmailLine /\ PolicyActive) =>
        /\ nLogin >= 1
        /\ login_ret # <<>>
        /\ tok = login_ret[1]
        /\ uid \notin {NoneStr, ""}
        /\ uid = SubjectOf(tok)

C15_Witness ==
    /\ OnEmailLine
    /\ pc = "checkin"
    /\ nCheckin >= 1
    /\ tok = TokFull
    /\ uid = "123"

(***************************************************************************)
(* C16: the status is fetched anew in every call of manage_checkin: a      *)
(* check-in request is sent only in a call whose status fetch returned a   *)
(* body that is not empty, and after a status fetch that ended with the    *)
(* empty body the line gets no check-in request                            *)
(***************************************************************************)
C16_CheckinOnlyAfterFetch ==
    /\ pc \in {"decide", "checkin", "checked"} => (nManage = 1 /\ nInfo >= 1)
    /\ (nCheckin + nPerform > 0 \/ pc \in {"checkin", "checked"})
         => /\ nInfo >= 1
            /\ nPerform = 1
            /\ pc # "lineDone" => info.n # 0
    /\ (pc \in {"decide", "pause", "exit"} /\ nInfo >= 1 /\ info.n = 0)
         => nCheckin + nPerform = 0
    /\ Logged("nodata") => nCheckin + nPerform = 0

C16_Witness ==
    /\ pc = "checked"
    /\ nInfo >= 2
    /\ nCheckin >= 1
    /\ info.n # 0

(***************************************************************************)
(* C17: in every pass every line is processed, once and in the order of    *)
(* the file, whatever happened on the lines before it: when the pass is    *)
(* over, as many lines have been processed as the file has                 *)
(***************************************************************************)
C17_EveryLineProcessed ==
    (pc \in {"wait", "exit"} /\ file.exists) => nDone = Len(lines)

(***************************************************************************)
(* C18: for one line of one pass manage_checkin is called at most once,    *)
(* at most 5 login, 5 status and 5 check-in requests are sent, and         *)
(* perform_checkin is called at most once in a call of manage_checkin      *)
(***************************************************************************)
C18_RequestsBounded ==
    /\ nManage <= 1
    /\ nLogin <= 5
    /\ nInfo <= 5
    /\ nCheckin <= 5
    /\ nPerform <= nManage
    /\ nInfo > 0 => nManage = 1
    /\ nCheckin > 0 => nPerform = 1

C18_Witness ==
    /\ pc = "checked"
    /\ nLogin = 5
    /\ nInfo = 5
    /\ nCheckin = 5
    /\ nManage = 1
    /\ nPerform = 1

(***************************************************************************)
(* C19: in one call of perform_checkin the server accepts at most one      *)
(* check-in request: once a request has been accepted no further request   *)
(* is sent, whether or not its response reached the client                 *)
(***************************************************************************)
C19_AtMostOneDelivered ==
    delivered <= 1

====
